---- MODULE Spec2Model ----
(***************************************************************************)
(* Model of lighthouse-core/gather/computed/trace-of-tab.js:               *)
(* TraceOfTab.isNavigationStartOfInterest, TraceOfTab.filteredStableSort   *)
(* and TraceOfTab.compute_.                                                *)
(*                                                                         *)
(* Conventions.  An optional JavaScript value is a sequence of length 0    *)
(* (undefined) or 1 (the value).  A JavaScript string that the code        *)
(* inspects (a category string, a URL) is a sequence of pieces, so that    *)
(* String.includes and the regular expression are computed, not assumed.   *)
(* Array positions are 1-based here and 0-based in the source.             *)
(***************************************************************************)
EXTENDS Integers, Sequences, FiniteSets, TLC

VARIABLES traceEvents, pc, resolved, sentryThrows, outcome, sortCall

vars == <<traceEvents, pc, resolved, sentryThrows, outcome, sortCall>>

(* ------------------------------ bounds --------------------------------- *)

MaxTs == 3
MaxSortLen == 4
MaxNavLen == 3
MaxMarkerLen == 3
MaxFrameLen == 3
MaxScopeLen == 4

(* ------------------------- optional values ----------------------------- *)

None == <<>>

Some(x) == <<x>>

(* ------------------------------ strings -------------------------------- *)

HasPrefix(s, p) == Len(s) >= Len(p) /\ SubSeq(s, 1, Len(p)) = p

Includes(s, sub) ==
  \E i \in 0..(Len(s) - Len(sub)) : SubSeq(s, i + 1, i + Len(sub)) = sub

(* /^(chrome|https?):/.test(url) *)
ACCEPTABLE_NAVIGATION_URL_REGEX(url) ==
  \/ HasPrefix(url, <<"c", "h", "r", "o", "m", "e", ":">>)
  \/ HasPrefix(url, <<"h", "t", "t", "p", ":">>)
  \/ HasPrefix(url, <<"h", "t", "t", "p", "s", ":">>)

(* ------------------------------ events --------------------------------- *)

Evt(name, cat, pid, tid, ts, dur, frame, data) ==
  [name |-> name, cat |-> cat, pid |-> pid, tid |-> tid, ts |-> ts,
   dur |-> dur, args |-> [frame |-> frame, data |-> data]]

(* !event.args.data || !event.args.data.documentLoaderURL: undefined and   *)
(* the empty string are both falsy.                                        *)
Falsy(optString) == optString = None \/ optString = Some(<<>>)

isNavigationStartOfInterest(event) ==
  /\ event.name = "navigationStart"
  /\ \/ event.args.data = None
     \/ Falsy(event.args.data[1].documentLoaderURL)
     \/ ACCEPTABLE_NAVIGATION_URL_REGEX(event.args.data[1].documentLoaderURL[1])

(* ------------------------- filteredStableSort -------------------------- *)

(* The filter of the first call in compute_                                *)
IsKeyEvent(e) ==
  \/ Includes(e.cat, <<"blink.user_timing">>)
  \/ Includes(e.cat, <<"loading">>)
  \/ Includes(e.cat, <<"devtools.timeline">>)
  \/ e.cat = <<"__metadata">>

(* A filter is a descriptor, applied here: the two filters compute_ passes *)
(* and two constant ones.                                                  *)
ApplyFilter(filter, e) ==
  CASE filter.kind = "key" -> IsKeyEvent(e)
    [] filter.kind = "pid" -> e.pid = filter.pid
    [] filter.kind = "all" -> TRUE
    [] filter.kind = "none" -> FALSE

(* the indices that we want to keep, ascending *)
KeptIndices(events, filter) ==
  SelectSeq([i \in 1..Len(events) |-> i], LAMBDA i : ApplyFilter(filter, events[i]))

(* A faulty variant: ties broken towards the later index *)
CompareIndicesLaterFirst(events, indexA, indexB) ==
  LET result == events[indexA].ts - events[indexB].ts
  IN IF result # 0 THEN result ELSE indexB - indexA

(* the comparator handed to indices.sort *)
CompareIndices(events, indexA, indexB) ==
  LET result == events[indexA].ts - events[indexB].ts
  IN IF result # 0 THEN result ELSE indexA - indexB

RECURSIVE InsertIndex(_, _, _)
InsertIndex(events, sortedPart, x) ==
  IF sortedPart = <<>> THEN <<x>>
  ELSE IF CompareIndices(events, x, Head(sortedPart)) < 0
       THEN <<x>> \o sortedPart
       ELSE <<Head(sortedPart)>> \o InsertIndex(events, Tail(sortedPart), x)

(* indices.sort(comparator): the comparator is a strict total order on     *)
(* distinct indices, so every sorting algorithm yields this arrangement.   *)
RECURSIVE SortIndices(_, _)
SortIndices(events, indices) ==
  IF indices = <<>> THEN <<>>
  ELSE InsertIndex(events,
                   SortIndices(events, SubSeq(indices, 1, Len(indices) - 1)),
                   indices[Len(indices)])

sortedIndices(events, filter) == SortIndices(events, KeptIndices(events, filter))

filteredStableSort(events, filter) ==
  LET indices == sortedIndices(events, filter)
  IN [i \in 1..Len(indices) |-> events[indices[i]]]

(* ------------------------------ arrays --------------------------------- *)

(* Array.prototype.pop on a fresh array: its last element, or undefined *)
Pop(array) == IF array = <<>> THEN None ELSE Some(array[Len(array)])

(* Array.prototype.reduce without an initial value, with the callback     *)
(* (max, evt) => max.ts > evt.ts ? max : evt; the array is not empty.     *)
RECURSIVE ReduceMaxTs(_)
ReduceMaxTs(array) ==
  IF Len(array) = 1 THEN array[1]
  ELSE LET max == ReduceMaxTs(SubSeq(array, 1, Len(array) - 1))
           evt == array[Len(array)]
       IN IF max.ts > evt.ts THEN max ELSE evt

(* ------------------------------ compute_ ------------------------------- *)

KeyFilter == [kind |-> "key"]

PidFilter(pid) == [kind |-> "pid", pid |-> pid]

keyEventsOf(events) == filteredStableSort(events, KeyFilter)

(* A faulty variant: the frame's key events in trace order, unsorted *)
frameEventsOfUnsorted(events, frameId) ==
  SelectSeq(events, LAMBDA e : IsKeyEvent(e) /\ e.args.frame = Some(frameId))

frameEventsOf(events, frameId) ==
  SelectSeq(keyEventsOf(events), LAMBDA e : e.args.frame = Some(frameId))

(* A faulty variant: the last navigationStart, whatever its URL *)
navigationStartOfAnyUrl(frameEvents) ==
  Pop(SelectSeq(frameEvents, LAMBDA e : e.name = "navigationStart"))

navigationStartOf(frameEvents) ==
  Pop(SelectSeq(frameEvents, isNavigationStartOfInterest))

(* frameEvents.find(e => e.name === name && e.ts > navigationStart.ts) *)
(* Array.prototype.find: the first element passing the test, or undefined *)
findAfter(frameEvents, name, navigationStart) ==
  LET passing ==
        SelectSeq(frameEvents, LAMBDA e : e.name = name /\ e.ts > navigationStart.ts)
  IN IF passing = <<>> THEN None ELSE Some(Head(passing))

lastCandidateOf(frameEvents) ==
  Pop(SelectSeq(frameEvents, LAMBDA e : e.name = "firstMeaningfulPaintCandidate"))

(* A faulty variant: the process's events among the key events only *)
processEventsOfKeyEvents(events, startedInPageEvt) ==
  filteredStableSort(keyEventsOf(events), PidFilter(startedInPageEvt.pid))

processEventsOf(events, startedInPageEvt) ==
  filteredStableSort(events, PidFilter(startedInPageEvt.pid))

mainThreadEventsOf(processEvents, startedInPageEvt) ==
  SelectSeq(processEvents, LAMBDA e : e.tid = startedInPageEvt.tid)

(* traceEnd.ts + (traceEnd.dur || 0) *)
fakeEndOfTraceEvt(events) ==
  LET traceEnd == ReduceMaxTs(events)
  IN [ts |-> traceEnd.ts + (IF traceEnd.dur = None THEN 0 ELSE traceEnd.dur[1])]

getTimestamp(event) == IF event = None THEN None ELSE Some(event[1].ts)

(* A faulty variant: microseconds left undivided *)
getTimingMicros(ts, navigationStart) == [num |-> ts - navigationStart.ts, den |-> 1]

(* (ts - navigationStart.ts) / 1000, kept as an exact fraction *)
getTiming(ts, navigationStart) == [num |-> ts - navigationStart.ts, den |-> 1000]

maybeGetTiming(ts, navigationStart) ==
  IF ts = None THEN None ELSE Some(getTiming(ts[1], navigationStart))

Throw(error) == [kind |-> "error", error |-> error]

(* The body of compute_ from the firstMeaningfulPaint search on; the two   *)
(* required markers are known to exist.                                    *)
computeResult(events, startedInPageEvt, frameEvents, navigationStart, firstPaint, firstContentfulPaint, throws) ==
  LET found == findAfter(frameEvents, "firstMeaningfulPaint", navigationStart)
      fmpFellBack == (found = None)
      firstMeaningfulPaint == IF fmpFellBack THEN lastCandidateOf(frameEvents) ELSE found
      load == findAfter(frameEvents, "loadEventEnd", navigationStart)
      domContentLoaded == findAfter(frameEvents, "domContentLoadedEventEnd", navigationStart)
      processEvents == processEventsOf(events, startedInPageEvt)
      mainThreadEvents == mainThreadEventsOf(processEvents, startedInPageEvt)
      timestamps ==
        [navigationStart |-> Some(navigationStart.ts),
         firstPaint |-> getTimestamp(firstPaint),
         firstContentfulPaint |-> Some(firstContentfulPaint.ts),
         firstMeaningfulPaint |-> getTimestamp(firstMeaningfulPaint),
         traceEnd |-> Some(fakeEndOfTraceEvt(events).ts),
         load |-> getTimestamp(load),
         domContentLoaded |-> getTimestamp(domContentLoaded)]
      timings ==
        [navigationStart |-> Some([num |-> 0, den |-> 1]),
         firstPaint |-> maybeGetTiming(timestamps.firstPaint, navigationStart),
         firstContentfulPaint |->
           Some(getTiming(timestamps.firstContentfulPaint[1], navigationStart)),
         firstMeaningfulPaint |->
           maybeGetTiming(timestamps.firstMeaningfulPaint, navigationStart),
         traceEnd |-> Some(getTiming(timestamps.traceEnd[1], navigationStart)),
         load |-> maybeGetTiming(timestamps.load, navigationStart),
         domContentLoaded |-> maybeGetTiming(timestamps.domContentLoaded, navigationStart)]
  IN (* Sentry.captureMessage is called, unguarded, on the fallback path *)
     IF fmpFellBack /\ throws THEN Throw("SentryException")
     ELSE [kind |-> "result",
           timings |-> timings,
           timestamps |-> timestamps,
           processEvents |-> processEvents,
           mainThreadEvents |-> mainThreadEvents,
           startedInPageEvt |-> startedInPageEvt,
           navigationStartEvt |-> Some(navigationStart),
           firstPaintEvt |-> firstPaint,
           firstContentfulPaintEvt |-> Some(firstContentfulPaint),
           firstMeaningfulPaintEvt |-> firstMeaningfulPaint,
           loadEvt |-> load,
           domContentLoadedEvt |-> domContentLoaded,
           fmpFellBack |-> fmpFellBack]

(* compute_(trace), with what the collaborators do as further arguments:   *)
(* found is what TracingProcessor.findTracingStartedEvt returned, throws   *)
(* is whether Sentry.captureMessage throws when it is called.              *)
compute_(events, found, throws) ==
  LET frameEvents == frameEventsOf(events, found.frameId)
      navigationStart == navigationStartOf(frameEvents)
  IN IF navigationStart = None THEN Throw("NO_NAVSTART")
     ELSE LET firstPaint == findAfter(frameEvents, "firstPaint", navigationStart[1])
              firstContentfulPaint ==
                findAfter(frameEvents, "firstContentfulPaint", navigationStart[1])
          IN IF firstContentfulPaint = None THEN Throw("NO_FCP")
             ELSE computeResult(events, found.startedInPageEvt, frameEvents,
                                navigationStart[1], firstPaint,
                                firstContentfulPaint[1], throws)

(* What TracingProcessor.findTracingStartedEvt may return: the start       *)
(* event (its pid and tid are all compute_ reads) and the frame id.        *)
findTracingStartedEvt(pids, tids, frames) ==
  {[startedInPageEvt |-> [pid |-> p, tid |-> t], frameId |-> f] :
     p \in pids, t \in tids, f \in frames}

(* ------------------------------ actions -------------------------------- *)

NotCalled == [kind |-> "none"]

Init ==
  /\ traceEvents = <<>>
  /\ pc = "trace"
  /\ resolved = NotCalled
  /\ sentryThrows = FALSE
  /\ outcome = NotCalled
  /\ sortCall = NotCalled

(* The trace, produced outside this code, gains one more event. *)
AddEvent(events, maxLen) ==
  /\ pc = "trace"
  /\ Len(traceEvents) < maxLen
  /\ \E e \in events : traceEvents' = Append(traceEvents, e)
  /\ UNCHANGED <<pc, resolved, sentryThrows, outcome, sortCall>>

(* TraceOfTab.filteredStableSort(traceEvents, filter) *)
Sort(filters) ==
  /\ pc = "trace"
  /\ \E f \in filters :
       sortCall' = [kind |-> "sorted", filter |-> f,
                    sorted |-> filteredStableSort(traceEvents, f)]
  /\ pc' = "sorted"
  /\ UNCHANGED <<traceEvents, resolved, sentryThrows, outcome>>

(* compute_(trace) *)
Compute(founds) ==
  /\ pc = "trace"
  /\ \E found \in founds, throws \in BOOLEAN :
       /\ resolved' = found
       /\ sentryThrows' = throws
       /\ outcome' = compute_(traceEvents, found, throws)
  /\ pc' = "computed"
  /\ UNCHANGED <<traceEvents, sortCall>>

(* --------------------------- input domains ----------------------------- *)

(* Category strings, in pieces: "blink.user_timing", "v8",                 *)
(* "loading,rail,devtools.timeline"                                        *)
UserTiming == <<"blink.user_timing">>

V8 == <<"v8">>

LoadingRail == <<"loading", ",rail,", "devtools.timeline">>

Frames == {"F1", "F2"}

MarkerNames ==
  {"navigationStart", "firstPaint", "firstContentfulPaint", "firstMeaningfulPaint",
   "firstMeaningfulPaintCandidate", "loadEventEnd", "domContentLoadedEventEnd"}

(* Sorting: times with ties, two processes, key and other categories. *)
SortEvents ==
  {Evt("e", c, p, 1, ts, None, Some("F1"), None) :
     c \in {UserTiming, V8}, p \in {1, 2}, ts \in 1..MaxTs}

SortFilters ==
  {KeyFilter, PidFilter(1), PidFilter(2), [kind |-> "all"], [kind |-> "none"]}

(* Every marker at every time, in one frame of one thread. *)
MarkerEvents ==
  {Evt(n, UserTiming, 1, 1, ts, None, Some("F1"), None) :
     n \in MarkerNames, ts \in 1..MaxTs}

(* Document URLs, in characters. *)
Urls ==
  {<<>>,
   <<"h", "t", "t", "p", ":", "/", "/", "a">>,
   <<"h", "t", "t", "p", "s", ":", "/", "/", "a">>,
   <<"c", "h", "r", "o", "m", "e", ":", "/", "/", "n">>,
   <<"a", "b", "o", "u", "t", ":", "b", "l", "a", "n", "k">>,
   <<"d", "a", "t", "a", ":", "x">>,
   <<"c", "h", "r", "o", "m", "e", "-", "e", "x", "t", "e", "n", "s", "i", "o", "n", ":">>,
   <<"h", "t", "t", "p", "x", ":">>,
   <<"x", "h", "t", "t", "p", ":">>,
   <<"H", "T", "T", "P", ":">>}

NavData ==
  {None, Some([documentLoaderURL |-> None])}
    \cup {Some([documentLoaderURL |-> Some(u)]) : u \in Urls}

(* Navigation starts of every kind of URL at two times, others out of the *)
(* tracked frame or of the key categories, and first contentful paints to  *)
(* complete them.                                                          *)
NavEvents ==
  {Evt("navigationStart", UserTiming, 1, 1, ts, None, Some("F1"), d) :
     ts \in {1, MaxTs - 1}, d \in NavData}
    \cup {Evt("navigationStart", UserTiming, 1, 1, MaxTs - 1, None, f, None) :
            f \in {Some("F2"), None}}
    \cup {Evt("navigationStart", V8, 1, 1, MaxTs - 1, None, Some("F1"), None)}
    \cup {Evt("firstContentfulPaint", UserTiming, 1, 1, ts, None, Some("F1"), None) :
            ts \in {1, MaxTs}}
    \cup {Evt("firstContentfulPaint", UserTiming, 1, 1, MaxTs, None, Some("F2"), None),
          Evt("firstContentfulPaint", V8, 1, 1, MaxTs, None, Some("F1"), None)}

(* Navigation starts, then the four plain markers at and after them, in   *)
(* and out of the tracked frame and of the key categories.                 *)
FrameEvents ==
  {Evt("navigationStart", UserTiming, 1, 1, ts, None, Some("F1"), None) :
     ts \in {1, MaxTs - 1}}
    \cup {Evt(n, c, 1, 1, ts, None, Some("F1"), None) :
            n \in {"firstPaint", "firstContentfulPaint", "loadEventEnd",
                   "domContentLoadedEventEnd"},
            ts \in (MaxTs - 1)..MaxTs,
            c \in {UserTiming, LoadingRail, V8}}
    \cup {Evt(n, UserTiming, 1, 1, ts, None, Some("F2"), None) :
            n \in {"firstPaint", "firstContentfulPaint", "loadEventEnd",
                   "domContentLoadedEventEnd"},
            ts \in (MaxTs - 1)..MaxTs}

(* A navigation start and a first contentful paint, then events of every   *)
(* process and thread, with and without a duration, outside the key        *)
(* categories.                                                             *)
ScopeEvents ==
  {Evt("navigationStart", UserTiming, 1, 1, 1, None, Some("F1"), None),
   Evt("firstContentfulPaint", UserTiming, 1, 1, 2, None, Some("F1"), None)}
    \cup {Evt("RunTask", V8, p, t, ts, None, None, None) :
            p \in {1, 2}, t \in {1, 2}, ts \in {1, MaxTs}}
    \cup {Evt("RunTask", V8, 1, 1, ts, Some(MaxTs), None, None) : ts \in {1, MaxTs}}

(* --------------------------- specifications ---------------------------- *)

AddSortEvent == AddEvent(SortEvents, MaxSortLen)

SortAny == Sort(SortFilters)

NextSort == AddSortEvent \/ SortAny

SpecSort == Init /\ [][NextSort]_vars

AddMarkerEvent == AddEvent(MarkerEvents, MaxMarkerLen)

ComputeMarkers == Compute(findTracingStartedEvt({1}, {1}, {"F1"}))

NextMarkers == AddMarkerEvent \/ ComputeMarkers

SpecMarkers == Init /\ [][NextMarkers]_vars

AddNavEvent == AddEvent(NavEvents, MaxNavLen)

ComputeNav == Compute(findTracingStartedEvt({1}, {1}, Frames))

NextNav == AddNavEvent \/ ComputeNav

SpecNav == Init /\ [][NextNav]_vars

AddFrameEvent == AddEvent(FrameEvents, MaxFrameLen)

ComputeFrame == Compute(findTracingStartedEvt({1}, {1}, {"F1"}))

NextFrame == AddFrameEvent \/ ComputeFrame

SpecFrame == Init /\ [][NextFrame]_vars

AddScopeEvent == AddEvent(ScopeEvents, MaxScopeLen)

ComputeScope == Compute(findTracingStartedEvt({1, 2}, {1, 2}, {"F1"}))

NextScope == AddScopeEvent \/ ComputeScope

SpecScope == Init /\ [][NextScope]_vars

(* ------------------- vocabulary of the properties ---------------------- *)

Indices == 1..Len(traceEvents)

Computed == pc = "computed"

Succeeded == pc = "computed" /\ outcome.kind = "result"

(* Position i comes before position j in chronological stable order. *)
Before(i, j) ==
  \/ traceEvents[i].ts < traceEvents[j].ts
  \/ traceEvents[i].ts = traceEvents[j].ts /\ i < j

FirstOf(S) == CHOOSE i \in S : \A j \in S \ {i} : Before(i, j)

LastOf(S) == CHOOSE i \in S : \A j \in S \ {i} : Before(j, i)

OptEventAt(S, i) == IF S = {} THEN None ELSE Some(traceEvents[i])

(* The events at the positions S, in chronological stable order. *)
Arranged(S) ==
  [k \in 1..Cardinality(S) |->
     traceEvents[CHOOSE i \in S : Cardinality({j \in S : Before(j, i)}) = k - 1]]

(* The key events of the tracked frame. *)
Tracked ==
  {i \in Indices : /\ IsKeyEvent(traceEvents[i])
                   /\ traceEvents[i].args.frame = Some(resolved.frameId)}

AcceptedSchemes ==
  {<<"c", "h", "r", "o", "m", "e", ":">>, <<"h", "t", "t", "p", ":">>,
   <<"h", "t", "t", "p", "s", ":">>}

(* The document URL of an event: none when there is no data, no URL in the *)
(* data, or an empty URL (which JavaScript treats as no value).            *)
UrlOf(e) ==
  IF e.args.data = None THEN None
  ELSE IF e.args.data[1].documentLoaderURL = Some(<<>>) THEN None
       ELSE e.args.data[1].documentLoaderURL

NavStarts ==
  {i \in Tracked :
     /\ traceEvents[i].name = "navigationStart"
     /\ \/ UrlOf(traceEvents[i]) = None
        \/ \E p \in AcceptedSchemes : HasPrefix(UrlOf(traceEvents[i])[1], p)}

(* The tracked frame's events called name, strictly after time ts. *)
After(name, ts) ==
  {i \in Tracked : traceEvents[i].name = name /\ traceEvents[i].ts > ts}

Named(name) == {i \in Tracked : traceEvents[i].name = name}

NavTs == traceEvents[LastOf(NavStarts)].ts

Leq(a, b) == a.num * b.den <= b.num * a.den

(* -------------------------------- C1 ----------------------------------- *)

(* C1: filteredStableSort returns exactly the input events that satisfy    *)
(* the predicate, each once, by non-decreasing timestamp, events of equal  *)
(* timestamp in their input order: the output is ordered by timestamp and, *)
(* for each timestamp, its events of that timestamp are the kept input     *)
(* events of that timestamp, in input order.                               *)
C1_FilteredStableSort ==
  pc = "sorted" =>
    LET out == sortCall.sorted
        kept == SelectSeq(traceEvents, LAMBDA e : ApplyFilter(sortCall.filter, e))
        Times == {kept[k].ts : k \in 1..Len(kept)} \cup {out[k].ts : k \in 1..Len(out)}
    IN /\ \A j, k \in 1..Len(out) : j < k => out[j].ts <= out[k].ts
       /\ \A t \in Times :
            SelectSeq(out, LAMBDA e : e.ts = t) = SelectSeq(kept, LAMBDA e : e.ts = t)

(* Three events of one timestamp, distinguishable, were sorted among       *)
(* others that were dropped or came earlier in time but later in the input.*)
C1_Witness ==
  /\ pc = "sorted"
  /\ sortCall.filter = PidFilter(1)
  /\ Len(traceEvents) = 4
  /\ Len(sortCall.sorted) = 3
  /\ traceEvents[1].ts = 2 /\ traceEvents[2].ts = 2 /\ traceEvents[4].ts = 1
  /\ traceEvents[1].cat # traceEvents[2].cat
  /\ traceEvents[3].pid = 2

(* -------------------------------- C2 ----------------------------------- *)

EndOf(i) ==
  traceEvents[i].ts + (IF traceEvents[i].dur = None THEN 0 ELSE traceEvents[i].dur[1])

(* C2: the traceEnd timestamp of a result is the greatest                  *)
(* timestamp + (duration or 0) over all events of the trace.               *)
C2_TraceEndIsLatestEnd ==
  Succeeded =>
    \E i \in Indices :
      /\ outcome.timestamps.traceEnd = Some(EndOf(i))
      /\ \A j \in Indices : EndOf(j) <= EndOf(i)

(* -------------------------------- C3 ----------------------------------- *)

C4_OnlyTwoFatalErrors ==
  Computed =>
    IF NavStarts = {} THEN outcome = Throw("NO_NAVSTART")
    ELSE IF After("firstContentfulPaint", NavTs) = {} THEN outcome = Throw("NO_FCP")
         ELSE outcome.kind = "result"

(* What remains of C4 when the report to Sentry does not throw. *)
C4_WhenReportSucceeds == sentryThrows \/ C4_OnlyTwoFatalErrors

(* -------------------------------- C5 ----------------------------------- *)

(* C5: the navigation start of a result is the last event, in the          *)
(* chronological stable order of the tracked frame's key events, that is   *)
(* called navigationStart and whose document URL is absent or begins with  *)
(* chrome:, http: or https:.                                               *)
C5_LastAcceptedNavigationStart ==
  Succeeded =>
    /\ NavStarts # {}
    /\ outcome.navigationStartEvt = Some(traceEvents[LastOf(NavStarts)])

(* A result whose navigation start has an accepted URL and is followed in  *)
(* time by a navigationStart of the tracked frame with a rejected one.     *)
C5_Witness ==
  /\ Succeeded
  /\ \E i \in NavStarts, j \in Named("navigationStart") \ NavStarts :
       /\ Before(i, j)
       /\ UrlOf(traceEvents[i]) # None
       /\ outcome.navigationStartEvt = Some(traceEvents[i])

(* -------------------------------- C6 ----------------------------------- *)

(* C6: with a navigation start and a first contentful paint, compute_      *)
(* returns a result; its first meaningful paint is the first               *)
(* firstMeaningfulPaint of the tracked frame strictly after navigation     *)
(* start, with fmpFellBack false, when there is one, and otherwise         *)
(* fmpFellBack is true and the marker is the chronologically last          *)
(* firstMeaningfulPaintCandidate of the frame, or absent without one: the  *)
(* missing marker is never an error.                                       *)
C6_FmpOrLastCandidate ==
  (Computed /\ NavStarts # {} /\ After("firstContentfulPaint", NavTs) # {}) =>
    LET Fmps == After("firstMeaningfulPaint", NavTs)
        Cands == Named("firstMeaningfulPaintCandidate")
    IN /\ outcome.kind = "result"
       /\ IF Fmps # {}
          THEN /\ outcome.firstMeaningfulPaintEvt = Some(traceEvents[FirstOf(Fmps)])
               /\ outcome.fmpFellBack = FALSE
          ELSE /\ outcome.firstMeaningfulPaintEvt = OptEventAt(Cands, LastOf(Cands))
               /\ outcome.fmpFellBack = TRUE

(* What remains of C6 when the report to Sentry does not throw. *)
C6_WhenReportSucceeds == sentryThrows \/ C6_FmpOrLastCandidate

(* -------------------------------- C7 ----------------------------------- *)

(* C7: when the report to Sentry throws, compute_ ends as it does when the *)
(* report succeeds: with the same result or the same fatal error.          *)
C7_ReportFailureChangesNothing ==
  (Computed /\ sentryThrows) => outcome = compute_(traceEvents, resolved, FALSE)

(* -------------------------------- C8 ----------------------------------- *)

Markers ==
  {"firstPaint", "firstContentfulPaint", "firstMeaningfulPaint", "load", "domContentLoaded"}

MarkerEvt(marker) ==
  CASE marker = "firstPaint" -> outcome.firstPaintEvt
    [] marker = "firstContentfulPaint" -> outcome.firstContentfulPaintEvt
    [] marker = "firstMeaningfulPaint" -> outcome.firstMeaningfulPaintEvt
    [] marker = "load" -> outcome.loadEvt
    [] marker = "domContentLoaded" -> outcome.domContentLoadedEvt

(* The fraction timing has the value micros / 1000. *)
IsMillis(timing, micros) == timing.den > 0 /\ timing.num * 1000 = micros * timing.den

(* C8: in a result, each marker's timestamp is its event's ts and its      *)
(* timing is (timestamp - timestamps.navigationStart) / 1000; a marker     *)
(* without an event has neither; timings.navigationStart is 0.             *)
C8_TimingProjection ==
  Succeeded =>
    /\ outcome.timestamps.navigationStart = Some(outcome.navigationStartEvt[1].ts)
    /\ outcome.timings.navigationStart # None
    /\ IsMillis(outcome.timings.navigationStart[1], 0)
    /\ \A marker \in Markers :
         IF MarkerEvt(marker) = None
         THEN outcome.timestamps[marker] = None /\ outcome.timings[marker] = None
         ELSE /\ outcome.timestamps[marker] = Some(MarkerEvt(marker)[1].ts)
              /\ outcome.timings[marker] # None
              /\ IsMillis(outcome.timings[marker][1],
                          MarkerEvt(marker)[1].ts - outcome.navigationStartEvt[1].ts)

(* A result without first paint, whose navigation start is not at the     *)
(* origin of time and whose first meaningful paint is a fallback candidate *)
(* from before it.                                                         *)
C8_Witness ==
  /\ Succeeded
  /\ outcome.firstPaintEvt = None
  /\ outcome.fmpFellBack
  /\ outcome.firstMeaningfulPaintEvt # None
  /\ outcome.navigationStartEvt[1].ts = 2
  /\ outcome.firstMeaningfulPaintEvt[1].ts = 1

(* -------------------------------- C9 ----------------------------------- *)

InProcess == {i \in Indices : traceEvents[i].pid = resolved.startedInPageEvt.pid}

OnMainThread == {i \in InProcess : traceEvents[i].tid = resolved.startedInPageEvt.tid}

(* C9: in a result, processEvents is exactly the events of the whole trace *)
(* with the start event's pid, key category or not, in chronological       *)
(* stable order, and mainThreadEvents is those of them with the start      *)
(* event's tid, in the same order.                                         *)
C9_ProcessScoping ==
  Succeeded =>
    /\ outcome.processEvents = Arranged(InProcess)
    /\ outcome.mainThreadEvents = Arranged(OnMainThread)
    /\ \A k \in 1..Len(outcome.processEvents) :
         outcome.processEvents[k].pid = resolved.startedInPageEvt.pid

(* A result over a trace not in time order, with an event of another       *)
(* process, one of another thread of the process, and one of the main      *)
(* thread outside the key categories.                                      *)
C9_Witness ==
  /\ Succeeded
  /\ Indices \ InProcess # {}
  /\ InProcess \ OnMainThread # {}
  /\ \E i \in OnMainThread : ~IsKeyEvent(traceEvents[i])
  /\ \E i, j \in InProcess : i < j /\ traceEvents[j].ts < traceEvents[i].ts

(* -------------------------------- C10 ---------------------------------- *)

PlainMarkers ==
  {<<"firstPaint", "firstPaint">>, <<"firstContentfulPaint", "firstContentfulPaint">>,
   <<"load", "loadEventEnd">>, <<"domContentLoaded", "domContentLoadedEventEnd">>}

(* C10: in a result, each of firstPaint, firstContentfulPaint, load and    *)
(* domContentLoaded is the first key event of the tracked frame with that  *)
(* name and a timestamp strictly after the navigation start's, first in    *)
(* chronological stable order, and is absent only when there is none.      *)
C10_FirstAfterNavigationStart ==
  Succeeded =>
    \A m \in PlainMarkers :
      LET S == After(m[2], outcome.navigationStartEvt[1].ts)
      IN MarkerEvt(m[1]) = OptEventAt(S, FirstOf(S))

(* A result without a load whose first contentful paint is the earlier in  *)
(* the input of two different tracked firstContentfulPaint events of one   *)
(* timestamp, after a navigation start that is not the earliest event.     *)
C10_Witness ==
  /\ Succeeded
  /\ outcome.loadEvt = None
  /\ outcome.navigationStartEvt[1].ts > 1
  /\ \E i, j \in After("firstContentfulPaint", outcome.navigationStartEvt[1].ts) :
       /\ i < j
       /\ traceEvents[i].ts = traceEvents[j].ts
       /\ traceEvents[i] # traceEvents[j]
       /\ outcome.firstContentfulPaintEvt = Some(traceEvents[i])

====
